---- MODULE Spec2Model ----
(***************************************************************************)
(* SolarRoots directory worker: the vision-alignment assessment engine     *)
(* (src/src/config/vision.ts) and the worker that calls it                 *)
(* (src/src/index.ts).                                                     *)
(*                                                                         *)
(* Numbers are exact rationals [num, den] in lowest terms.  Within the     *)
(* bounds below no quotient lies on a rounding tie of toFixed(1), so the   *)
(* exact value and the IEEE double of the code round to the same decimal.  *)
(***************************************************************************)
EXTENDS Integers, Sequences, FiniteSets, TLC

----------------------------------------------------------------------------
(* Bounds *)

MaxSites == 2
MaxMinimumSites == 2
MaxDensityHalves == 3
MaxRecommended == 2
MaxFocus == 3
MaxInterleavedSites == 1
MaxStoredSites == 1
MaxListedSites == 2
MaxEmailChars == 5

\* tag labels (db/migrations/0001_create_sites.sql seeds these)
Tags == {"solar", "cooperative"}

\* storytelling focus areas a configuration may list, in document order
FocusAreas == <<"community", "land", "energy", "youth">>

VARIABLES
  loadState,       \* "importing" | "loaded" | "failed": evaluation of the vision module
  visionConfig,    \* the module-level constant visionConfig
  entries,         \* argument of the latest assessDirectoryAgainstVision call
  totalTags,       \* the latest call's local totalTags
  tagOccurrences,  \* the latest call's local tagOccurrences map
  assessment,      \* value returned by the latest call
  remembered,      \* an earlier call kept for comparison, or NoCall
  document,        \* the bundled vision.yaml, as the yaml parser sees it
  storedSites,     \* rows of the sites table, in the order of SITE_QUERY
  response,        \* the latest response of the fetch handler, or NoResponse
  heap,            \* identity of the array each list-valued slot refers to
  submission,      \* the /api/interest request being handled, or NoSubmission
  signups          \* rows of the interest_signups table

vars == <<loadState, visionConfig, entries, totalTags, tagOccurrences,
          assessment, remembered, document, storedSites, response,
          heap, submission, signups>>

engineVars == <<entries, totalTags, tagOccurrences, assessment, heap>>

interestVars == <<submission, signups>>

NoCall == [called |-> FALSE]
NoConfig == [loaded |-> FALSE]
NoResponse == [served |-> FALSE]
NoSubmission == [pc |-> "none"]

\* JavaScript undefined and SQL NULL, as values of string-typed fields
Undefined == "<undefined>"
Null == "<null>"

----------------------------------------------------------------------------
(* JavaScript numbers as exact rationals *)

RECURSIVE GCD(_, _)
GCD(a, b) == IF b = 0 THEN a ELSE GCD(b, a % b)

Rat(n, d) == LET g == GCD(n, d) IN [num |-> n \div g, den |-> d \div g]

Int2Rat(n) == [num |-> n, den |-> 1]

RatAdd(a, b) == Rat(a.num * b.den + b.num * a.den, a.den * b.den)

RatMul(a, b) == Rat(a.num * b.num, a.den * b.den)

\* a / b for b > 0
RatDiv(a, b) == Rat(a.num * b.den, a.den * b.num)

RatLE(a, b) == a.num * b.den <= b.num * a.den

RatLT(a, b) == a.num * b.den < b.num * a.den

\* Math.min
RatMin(a, b) == IF RatLE(a, b) THEN a ELSE b

\* Number.prototype.toFixed(1): the decimal with one fraction digit nearest
\* to x, the larger one on a tie.  The result is the digit string
\* whole "." tenth, kept as its two parts.
toFixed1(x) ==
  LET n == (20 * x.num + x.den) \div (2 * x.den)
  IN  [whole |-> n \div 10, tenth |-> n % 10]

\* the text of a toFixed(1) result, as interpolated into a template
FixedText(f) == ToString(f.whole) \o "." \o ToString(f.tenth)

\* Number(text) of a toFixed(1) result
NumberOfFixed(f) == Rat(f.whole * 10 + f.tenth, 10)

----------------------------------------------------------------------------
(* Collections *)

Range(s) == {s[i] : i \in 1..Len(s)}

\* new Map()
NewMap == [k \in {} |-> 0]

MapHas(m, k) == k \in DOMAIN m

\* m.get(k) ?? 0
MapGetOr0(m, k) == IF k \in DOMAIN m THEN m[k] ELSE 0

MapSet(m, k, v) == [x \in (DOMAIN m) \cup {k} |-> IF x = k THEN v ELSE m[x]]

\* Set.prototype.add on an insertion-ordered Set<string>
SetAdd(set, s) == IF s \in Range(set) THEN set ELSE Append(set, s)

\* Array.prototype.join
RECURSIVE join(_, _)
join(items, sep) ==
  IF Len(items) = 0 THEN ""
  ELSE IF Len(items) = 1 THEN items[1]
  ELSE items[1] \o sep \o join(Tail(items), sep)

----------------------------------------------------------------------------
(* vision.ts: formatList, and the copy of it in index.ts *)

formatList(items) ==
  IF Len(items) = 0 THEN ""
  ELSE IF Len(items) = 1 THEN items[1]
  ELSE IF Len(items) = 2 THEN items[1] \o " and " \o items[2]
  ELSE LET allButLast == join(SubSeq(items, 1, Len(items) - 1), ", ")
           last == items[Len(items)]
       IN  allButLast \o ", and " \o last

\* formatListRenderer without the comma before "and"
formatListRendererNoOxford(items) ==
  IF Len(items) = 0 THEN ""
  ELSE IF Len(items) = 1 THEN items[1]
  ELSE join(SubSeq(items, 1, Len(items) - 1), ", ") \o " and " \o items[Len(items)]

formatListRenderer(items) ==
  IF Len(items) = 0 THEN ""
  ELSE IF Len(items) = 1 THEN items[1]
  ELSE IF Len(items) = 2 THEN items[1] \o " and " \o items[2]
  ELSE join(SubSeq(items, 1, Len(items) - 1), ", ") \o ", and " \o items[Len(items)]

----------------------------------------------------------------------------
(* vision.ts: assessDirectoryAgainstVision, step by step *)

\* inner loop: for (const tag of site.tags)
RECURSIVE CountSiteTags(_, _)
CountSiteTags(tags, acc) ==
  IF tags = <<>> THEN acc
  ELSE LET tag == Head(tags)
       IN  CountSiteTags(Tail(tags),
             [totalTags |-> acc.totalTags + 1,
              tagOccurrences |->
                MapSet(acc.tagOccurrences, tag, MapGetOr0(acc.tagOccurrences, tag) + 1)])

\* outer loop: for (const site of sites)
RECURSIVE CountTags(_, _)
CountTags(sites, acc) ==
  IF sites = <<>> THEN acc
  ELSE CountTags(Tail(sites), CountSiteTags(Head(sites).tags, acc))

\* TagTally with the accumulators kept at module level, not reset per call
TagTallyShared(sites) ==
  CountTags(sites, [totalTags |-> totalTags, tagOccurrences |-> tagOccurrences])

\* let totalTags = 0; const tagOccurrences = new Map(); then the loops
TagTally(sites) == CountTags(sites, [totalTags |-> 0, tagOccurrences |-> NewMap])

AverageTagsPerSite(siteCount, total) ==
  IF siteCount = 0 THEN Int2Rat(0) ELSE Rat(total, siteCount)

\* PartitionRecommended with unshift in place of push
RECURSIVE PartitionRecommendedUnshift(_, _, _)
PartitionRecommendedUnshift(recommended, occ, acc) ==
  IF recommended = <<>> THEN acc
  ELSE LET tag == Head(recommended)
       IN  PartitionRecommendedUnshift(Tail(recommended), occ,
             IF MapHas(occ, tag)
             THEN [acc EXCEPT !.present = <<tag>> \o @]
             ELSE [acc EXCEPT !.missing = <<tag>> \o @])

\* for (const tag of recommended_tags): push to present or to missing
RECURSIVE PartitionRecommended(_, _, _)
PartitionRecommended(recommended, occ, acc) ==
  IF recommended = <<>> THEN acc
  ELSE LET tag == Head(recommended)
       IN  PartitionRecommended(Tail(recommended), occ,
             IF MapHas(occ, tag)
             THEN [acc EXCEPT !.present = Append(@, tag)]
             ELSE [acc EXCEPT !.missing = Append(@, tag)])

\* CoverageRatio without the branch for an empty recommended list
CoverageRatioEmptyZero(recommended, present) ==
  IF Len(recommended) # 0 THEN Rat(Len(present), Len(recommended)) ELSE Int2Rat(0)

CoverageRatio(recommended, present) ==
  IF Len(recommended) # 0 THEN Rat(Len(present), Len(recommended)) ELSE Int2Rat(1)

MeetsMinimumSites(siteCount, minimum_sites) == siteCount >= minimum_sites

\* MeetsMinimumTagDensity with > in place of >=
MeetsMinimumTagDensityStrict(average, minimum_tag_density) ==
  IF RatLE(minimum_tag_density, Int2Rat(0)) THEN TRUE
  ELSE RatLT(minimum_tag_density, average)

\* MeetsMinimumTagDensity that lets a directory without tags pass
MeetsMinimumTagDensityEmptyOk(average, minimum_tag_density) ==
  IF RatLE(minimum_tag_density, Int2Rat(0)) \/ average.num = 0 THEN TRUE
  ELSE RatLE(minimum_tag_density, average)

MeetsMinimumTagDensity(average, minimum_tag_density) ==
  IF RatLE(minimum_tag_density, Int2Rat(0)) THEN TRUE
  ELSE RatLE(minimum_tag_density, average)

SiteGapText(siteCount, minimum_sites) ==
  LET remaining == minimum_sites - siteCount
      entryWord == IF remaining = 1 THEN "entry" ELSE "entries"
  IN  "Publish " \o ToString(remaining) \o " more directory " \o entryWord
        \o " to reach the SolarRoots minimum of " \o ToString(minimum_sites) \o "."

DensityText(average, minimum_tag_density) ==
  "Increase the average tags per site to at least "
    \o FixedText(toFixed1(minimum_tag_density))
    \o " (currently " \o FixedText(toFixed1(average))
    \o ") by documenting more dimensions of each cooperative."

MissingTagsText(missing) ==
  "Introduce tags for " \o formatList(missing)
    \o " so the directory reflects SolarRoots focus areas."

StorytellingText(storytelling_focus) ==
  "Collect narratives covering " \o formatList(storytelling_focus)
    \o " to stay aligned with the SolarRoots storytelling focus."

\* Opportunities with the storytelling message gated on another gap
OpportunitiesGatedStory(m, storytelling_focus) ==
  LET o0 == <<>>
      o1 == IF ~m.meetsMinimumSites /\ m.minimumSites > 0
            THEN SetAdd(o0, SiteGapText(m.siteCount, m.minimumSites)) ELSE o0
      o2 == IF ~m.meetsMinimumTagDensity /\ RatLT(Int2Rat(0), m.minimumTagDensity)
            THEN SetAdd(o1, DensityText(m.averageTagsPerSite, m.minimumTagDensity)) ELSE o1
      o3 == IF Len(m.missingRecommendedTags) # 0
            THEN SetAdd(o2, MissingTagsText(m.missingRecommendedTags)) ELSE o2
      o4 == IF Len(storytelling_focus) # 0 /\ Len(o3) # 0
            THEN SetAdd(o3, StorytellingText(storytelling_focus)) ELSE o3
  IN  o4

\* const opportunities = new Set<string>() and the four guarded adds
Opportunities(m, storytelling_focus) ==
  LET o0 == <<>>
      o1 == IF ~m.meetsMinimumSites /\ m.minimumSites > 0
            THEN SetAdd(o0, SiteGapText(m.siteCount, m.minimumSites)) ELSE o0
      o2 == IF ~m.meetsMinimumTagDensity /\ RatLT(Int2Rat(0), m.minimumTagDensity)
            THEN SetAdd(o1, DensityText(m.averageTagsPerSite, m.minimumTagDensity)) ELSE o1
      o3 == IF Len(m.missingRecommendedTags) # 0
            THEN SetAdd(o2, MissingTagsText(m.missingRecommendedTags)) ELSE o2
      o4 == IF Len(storytelling_focus) # 0
            THEN SetAdd(o3, StorytellingText(storytelling_focus)) ELSE o3
  IN  o4

\* NormalizedProgressFactors with one coverage factor per recommended tag
NormalizedProgressFactorsPerTag(m) ==
  << IF m.minimumSites > 0
       THEN RatMin(Rat(m.siteCount, m.minimumSites), Int2Rat(1)) ELSE Int2Rat(1),
     IF RatLT(Int2Rat(0), m.minimumTagDensity)
       THEN RatMin(RatDiv(m.averageTagsPerSite, m.minimumTagDensity), Int2Rat(1))
       ELSE Int2Rat(1) >>
  \o [i \in 1..Len(m.recommendedTags) |->
        IF m.recommendedTags[i] \in Range(m.presentRecommendedTags)
        THEN Int2Rat(1) ELSE Int2Rat(0)]

NormalizedProgressFactors(m) ==
  << IF m.minimumSites > 0
       THEN RatMin(Rat(m.siteCount, m.minimumSites), Int2Rat(1)) ELSE Int2Rat(1),
     IF RatLT(Int2Rat(0), m.minimumTagDensity)
       THEN RatMin(RatDiv(m.averageTagsPerSite, m.minimumTagDensity), Int2Rat(1))
       ELSE Int2Rat(1),
     m.coverageRatio >>

\* factors.reduce((sum, value) => sum + value, 0)
RECURSIVE reduceSum(_, _)
reduceSum(values, sum) ==
  IF values = <<>> THEN sum ELSE reduceSum(Tail(values), RatAdd(sum, Head(values)))

\* ProgressScore without toFixed(1)
ProgressScoreUnrounded(factors) ==
  RatMul(RatDiv(reduceSum(factors, Int2Rat(0)), Int2Rat(Len(factors))), Int2Rat(100))

\* ProgressScore that cuts the digits after the first decimal
ProgressScoreTruncated(factors) ==
  LET x == RatMul(RatDiv(reduceSum(factors, Int2Rat(0)), Int2Rat(Len(factors))), Int2Rat(100))
  IN  Rat((10 * x.num) \div x.den, 10)

ProgressScore(factors) ==
  NumberOfFixed(toFixed1(
    RatMul(RatDiv(reduceSum(factors, Int2Rat(0)), Int2Rat(Len(factors))), Int2Rat(100))))

assessDirectoryAgainstVision(sites) ==
  LET t == visionConfig.directory_targets
      siteCount == Len(sites)
      tally == TagTally(sites)
      average == AverageTagsPerSite(siteCount, tally.totalTags)
      parts == PartitionRecommended(t.recommended_tags, tally.tagOccurrences,
                                    [present |-> <<>>, missing |-> <<>>])
      metrics ==
        [siteCount |-> siteCount,
         minimumSites |-> t.minimum_sites,
         meetsMinimumSites |-> MeetsMinimumSites(siteCount, t.minimum_sites),
         totalTags |-> tally.totalTags,
         averageTagsPerSite |-> average,
         minimumTagDensity |-> t.minimum_tag_density,
         meetsMinimumTagDensity |-> MeetsMinimumTagDensity(average, t.minimum_tag_density),
         recommendedTags |-> t.recommended_tags,
         presentRecommendedTags |-> parts.present,
         missingRecommendedTags |-> parts.missing,
         coverageRatio |-> CoverageRatio(t.recommended_tags, parts.present)]
  IN  [metrics |-> metrics,
       storytellingFocus |-> t.storytelling_focus,
       opportunities |-> Opportunities(metrics, t.storytelling_focus),
       progressScore |-> ProgressScore(NormalizedProgressFactors(metrics))]

\* index.ts renderVisionSummary: the first line, `${progressScore.toFixed(1)}% alignment`
renderVisionScore(a) ==
  "<p class=\"vision-score\"><strong>" \o FixedText(toFixed1(a.progressScore))
    \o "% alignment</strong> with the SolarRoots vision targets.</p>"

----------------------------------------------------------------------------
(* Inputs *)

\* sequences over S of length at most n
SeqsUpTo(S, n) == UNION {[1..k -> S] : k \in 0..n}

NoRepeats(s) == \A i, j \in 1..Len(s) : i # j => s[i] # s[j]

\* a site's tags: site_tags has PRIMARY KEY (site_id, tag_id) and tags.label
\* is UNIQUE, so a label occurs at most once; GROUP_CONCAT gives any order
SiteTagLists == {s \in SeqsUpTo(Tags, Cardinality(Tags)) : NoRepeats(s)}

SiteRecords ==
  [tags : SiteTagLists,
   description : {Null, "Worker-owned solar cooperative."},
   website : {Null, "https://sunrisecoop.example.com"}]

\* the engine reads only the tags of an entry
EngineSiteRecords == {r \in SiteRecords : r.description = Null /\ r.website = Null}

SiteLists == SeqsUpTo(EngineSiteRecords, MaxSites)

\* a density goal just above one tag per site
FineDensityGoal == Rat(1001, 1000)

DirectoryTargets ==
  [minimum_sites : 0..MaxMinimumSites,
   minimum_tag_density : {Rat(k, 2) : k \in 0..MaxDensityHalves} \cup {FineDensityGoal},
   recommended_tags : SeqsUpTo(Tags, MaxRecommended),
   storytelling_focus : {SubSeq(FocusAreas, 1, n) : n \in 0..MaxFocus}]

Mission == "Grow a living directory of solar cooperatives."

\* complete, well-typed configurations
VisionConfigs == [mission : {Mission}, directory_targets : DirectoryTargets]

----------------------------------------------------------------------------
(* Arrays: which array each list-valued slot refers to *)

NoArray == 0

\* before the module is evaluated no array exists
EmptyHeap ==
  [recommended_tags |-> NoArray, storytelling_focus |-> NoArray,
   recommendedTags |-> NoArray, storytellingFocus |-> NoArray]

\* parse(VISION_YAML) builds the two lists of directory_targets
ParsedHeap == [EmptyHeap EXCEPT !.recommended_tags = 1, !.storytelling_focus = 2]

\* the identity of a newly allocated array: one that no live array has
NewArray(live) ==
  CHOOSE n \in 1..(Cardinality(live) + 1) :
    n \notin live /\ \A k \in 1..(n - 1) : k \in live

\* Spread that hands out the array it was given
SpreadShared(array, live) == array

\* [...array]: a new array with the elements of `array`
Spread(array, live) == NewArray(live)

\* the slots of the returned assessment, lines 91 and 144; the arrays of an
\* earlier result are no longer referenced
ResultHeap(h) ==
  LET config == {h.recommended_tags, h.storytelling_focus}
      recommendedTags == Spread(h.recommended_tags, config)
  IN  [h EXCEPT !.recommendedTags = recommendedTags,
                !.storytellingFocus =
                   Spread(h.storytelling_focus, config \cup {recommendedTags})]

----------------------------------------------------------------------------
(* The engine called on a list of entries held by its caller *)

InitAssess ==
  /\ loadState = "loaded"
  /\ visionConfig \in VisionConfigs
  /\ entries \in SiteLists
  /\ totalTags = 0
  /\ tagOccurrences = NewMap
  /\ assessment = NoCall
  /\ remembered = NoCall
  /\ document = [wellFormed |-> TRUE, value |-> visionConfig]
  /\ storedSites = <<>>
  /\ response = NoResponse
  /\ heap = ParsedHeap
  /\ submission = NoSubmission
  /\ signups = <<>>

\* one call of assessDirectoryAgainstVision(sites); the locals of the call
\* stay behind in totalTags and tagOccurrences
AssessCall(sites) ==
  /\ loadState = "loaded"
  /\ entries' = sites
  /\ totalTags' = TagTally(sites).totalTags
  /\ tagOccurrences' = TagTally(sites).tagOccurrences
  /\ assessment' = assessDirectoryAgainstVision(sites)
  /\ heap' = ResultHeap(heap)
  /\ UNCHANGED <<loadState, visionConfig>>

NextAssess ==
  AssessCall(entries) /\ UNCHANGED <<remembered, document, storedSites, response, interestVars>>

SpecAssess == InitAssess /\ [][NextAssess]_vars

Called == assessment # NoCall

----------------------------------------------------------------------------
(* Claims about the assessment *)

\* C1: for every list of entries and every targets value with
\* minimumSites >= 0 and minimumTagDensity >= 0, progressScore lies in
\* [0, 100] and is a multiple of 0.1.
C1_ProgressScoreRange ==
  Called =>
    LET p == assessment.progressScore
    IN  /\ p.den > 0
        /\ 0 <= p.num
        /\ p.num <= 100 * p.den
        /\ (10 * p.num) % p.den = 0

\* a call whose mean is not a multiple of 0.1, so that the rounding acts
C1_Witness ==
  /\ Called
  /\ assessment.progressScore.den = 10
  /\ assessment.metrics.coverageRatio.den = 2
  /\ assessment.metrics.siteCount > 0

\* the three factors as the specification states them, from the returned metrics
SpecFactorSites(m) ==
  IF m.minimumSites = 0 THEN Int2Rat(1)
  ELSE IF m.siteCount >= m.minimumSites THEN Int2Rat(1)
  ELSE [num |-> m.siteCount, den |-> m.minimumSites]

SpecFactorDensity(m) ==
  IF m.minimumTagDensity.num = 0 THEN Int2Rat(1)
  ELSE LET q == [num |-> m.averageTagsPerSite.num * m.minimumTagDensity.den,
                 den |-> m.averageTagsPerSite.den * m.minimumTagDensity.num]
       IN  IF q.num >= q.den THEN Int2Rat(1) ELSE q

\* numerator and denominator of the sum of the three factors
SpecFactorSum(m) ==
  LET a == SpecFactorSites(m)
      b == SpecFactorDensity(m)
      c == m.coverageRatio
  IN  [num |-> a.num * b.den * c.den + b.num * a.den * c.den + c.num * a.den * b.den,
       den |-> a.den * b.den * c.den]

Abs(x) == IF x < 0 THEN -x ELSE x

\* C2: progressScore is the one-decimal rounding of 100 times the unweighted
\* mean of the three factors min(siteCount/minimumSites, 1),
\* min(averageTagsPerSite/minimumTagDensity, 1) and coverageRatio (a factor
\* is 1 when its target is 0): it is a multiple of 0.1 at distance at most
\* 0.05 from 100 * (f1 + f2 + f3) / 3.
C2_ProgressScoreIsMeanOfThree ==
  Called =>
    LET p == assessment.progressScore
        s == SpecFactorSum(assessment.metrics)
    IN  /\ (10 * p.num) % p.den = 0
        \* | p - 100 * s / 3 | <= 1/20
        /\ 20 * Abs(3 * s.den * p.num - 100 * s.num * p.den) <= 3 * s.den * p.den

\* all three factors strictly between 0 and 1 and pairwise different
C2_Witness ==
  /\ Called
  /\ LET m == assessment.metrics
         a == SpecFactorSites(m)
         b == SpecFactorDensity(m)
         c == m.coverageRatio
     IN  /\ 0 < a.num /\ a.num < a.den
         /\ 0 < b.num /\ b.num < b.den
         /\ 0 < c.num /\ c.num < c.den
         /\ a.num * b.den # b.num * a.den
         /\ Len(assessment.storytellingFocus) > 1

\* the tag occurs in the tag list of at least one entry
OccursInEntries(tag) == \E i \in 1..Len(entries) : tag \in Range(entries[i].tags)

NotInEntries(tag) == ~OccursInEntries(tag)

\* C3: presentRecommendedTags and missingRecommendedTags partition
\* recommendedTags: a recommended tag is in present exactly when some entry
\* carries it, otherwise in missing; both keep the configuration order; the
\* two lengths add up to the length of recommendedTags.
C3_PresentMissingPartition ==
  Called =>
    LET m == assessment.metrics
        rec == visionConfig.directory_targets.recommended_tags
    IN  /\ m.recommendedTags = rec
        /\ m.presentRecommendedTags = SelectSeq(rec, OccursInEntries)
        /\ m.missingRecommendedTags = SelectSeq(rec, NotInEntries)
        /\ Len(m.presentRecommendedTags) + Len(m.missingRecommendedTags) = Len(rec)

\* two different recommended tags are present (their order shows)
C3_Witness ==
  /\ Called
  /\ Len(assessment.metrics.presentRecommendedTags) = 2
  /\ assessment.metrics.presentRecommendedTags[1] # assessment.metrics.presentRecommendedTags[2]

\* C4: coverageRatio is presentRecommendedTags.length / recommendedTags.length
\* when recommendedTags is non-empty and exactly 1 when it is empty; it lies
\* in [0, 1].
C4_CoverageRatio ==
  Called =>
    LET m == assessment.metrics
        c == m.coverageRatio
    IN  /\ c.den > 0
        /\ 0 <= c.num /\ c.num <= c.den
        /\ Len(m.recommendedTags) # 0 =>
             c.num * Len(m.recommendedTags) = Len(m.presentRecommendedTags) * c.den
        /\ Len(m.recommendedTags) = 0 => (c.num = 1 /\ c.den = 1)

\* no recommended tags although the entries carry tags
C4_Witness ==
  /\ Called
  /\ assessment.metrics.recommendedTags = <<>>
  /\ assessment.metrics.totalTags > 0

RECURSIVE SumTagCounts(_)
SumTagCounts(sites) ==
  IF sites = <<>> THEN 0 ELSE Len(Head(sites).tags) + SumTagCounts(Tail(sites))

\* C5: averageTagsPerSite is totalTags / siteCount when siteCount > 0 and 0
\* when siteCount = 0; meetsMinimumTagDensity is true whenever
\* minimumTagDensity <= 0 and otherwise exactly when averageTagsPerSite >=
\* minimumTagDensity.
C5_AverageAndDensity ==
  Called =>
    LET m == assessment.metrics
        a == m.averageTagsPerSite
        d == m.minimumTagDensity
    IN  /\ m.siteCount = Len(entries)
        /\ m.totalTags = SumTagCounts(entries)
        /\ a.den > 0
        /\ m.siteCount > 0 => a.num * m.siteCount = m.totalTags * a.den
        /\ m.siteCount = 0 => a.num = 0
        /\ d.num <= 0 => m.meetsMinimumTagDensity
        /\ d.num > 0 => (m.meetsMinimumTagDensity <=> a.num * d.den >= d.num * a.den)

\* the average is exactly the (positive) density goal
C5_Witness ==
  /\ Called
  /\ assessment.metrics.minimumTagDensity.num > 0
  /\ assessment.metrics.averageTagsPerSite = assessment.metrics.minimumTagDensity
  /\ assessment.metrics.meetsMinimumTagDensity

\* C6: for an empty entries list with minimumSites > 0, minimumTagDensity > 0
\* and a non-empty recommendedTags list: siteCount = 0, meetsMinimumSites is
\* false, averageTagsPerSite = 0, meetsMinimumTagDensity is false,
\* coverageRatio = 0, progressScore = 0.0, and opportunities contains the
\* site-gap message naming minimumSites, the density message and the
\* missing-tags message listing every recommended tag.
C6_EmptyDirectory ==
  LET t == visionConfig.directory_targets
  IN  (/\ Called
       /\ entries = <<>>
       /\ t.minimum_sites > 0
       /\ t.minimum_tag_density.num > 0
       /\ t.recommended_tags # <<>>)
      =>
      LET m == assessment.metrics
          o == Range(assessment.opportunities)
      IN  /\ m.siteCount = 0
          /\ ~m.meetsMinimumSites
          /\ m.averageTagsPerSite.num = 0
          /\ ~m.meetsMinimumTagDensity
          /\ m.coverageRatio.num = 0
          /\ assessment.progressScore.num = 0
          /\ m.missingRecommendedTags = t.recommended_tags
          /\ SiteGapText(0, t.minimum_sites) \in o
          /\ DensityText(Int2Rat(0), t.minimum_tag_density) \in o
          /\ MissingTagsText(t.recommended_tags) \in o

\* the scenario of the specification: no entries, minimumSites 2, density
\* 1.5, two recommended tags
C6_Witness ==
  /\ Called
  /\ entries = <<>>
  /\ visionConfig.directory_targets.minimum_sites = 2
  /\ visionConfig.directory_targets.minimum_tag_density = [num |-> 3, den |-> 2]
  /\ visionConfig.directory_targets.recommended_tags = <<"solar", "cooperative">>
  /\ "Publish 2 more directory entries to reach the SolarRoots minimum of 2."
       \in Range(assessment.opportunities)
  /\ "Introduce tags for solar and cooperative so the directory reflects SolarRoots focus areas."
       \in Range(assessment.opportunities)

OptionalText(condition, text) == IF condition THEN <<text>> ELSE <<>>

\* C7: opportunities has no duplicate strings and holds, in this order,
\* exactly: the site-count gap message iff siteCount < minimumSites ("entry"
\* for a gap of 1, "entries" otherwise), the tag-density message iff
\* meetsMinimumTagDensity is false, the missing-tags message iff
\* missingRecommendedTags is non-empty, and the storytelling-focus message
\* iff storytellingFocus is non-empty; with all three targets met only the
\* storytelling message remains.
C7_OpportunitiesExact ==
  Called =>
    LET m == assessment.metrics
        gap == m.minimumSites - m.siteCount
        gapText == "Publish " \o ToString(gap) \o " more directory "
                     \o (IF gap = 1 THEN "entry" ELSE "entries")
                     \o " to reach the SolarRoots minimum of "
                     \o ToString(m.minimumSites) \o "."
    IN  /\ NoRepeats(assessment.opportunities)
        /\ assessment.opportunities =
             OptionalText(m.siteCount < m.minimumSites, gapText)
             \o OptionalText(~m.meetsMinimumTagDensity,
                             DensityText(m.averageTagsPerSite, m.minimumTagDensity))
             \o OptionalText(m.missingRecommendedTags # <<>>,
                             MissingTagsText(m.missingRecommendedTags))
             \o OptionalText(assessment.storytellingFocus # <<>>,
                             StorytellingText(assessment.storytellingFocus))

\* all three targets are set and met: only the storytelling message is left
C7_Witness ==
  /\ Called
  /\ assessment.metrics.minimumSites > 0
  /\ assessment.metrics.meetsMinimumSites
  /\ assessment.metrics.minimumTagDensity.num > 0
  /\ assessment.metrics.meetsMinimumTagDensity
  /\ assessment.metrics.recommendedTags # <<>>
  /\ assessment.metrics.missingRecommendedTags = <<>>
  /\ assessment.opportunities = <<StorytellingText(assessment.storytellingFocus)>>

\* "A, B, and C": every item but the last is followed by ", ", the last is
\* preceded by "and "
RECURSIVE OxfordText(_)
OxfordText(items) ==
  IF Len(items) = 1 THEN "and " \o items[1]
  ELSE items[1] \o ", " \o OxfordText(Tail(items))

ExpectedListText(items) ==
  CASE Len(items) = 0 -> ""
    [] Len(items) = 1 -> items[1]
    [] Len(items) = 2 -> items[1] \o " and " \o items[2]
    [] OTHER -> OxfordText(items)

\* the lists the engine and the renderers format in this state
FormattedLists ==
  {visionConfig.directory_targets.storytelling_focus,
   visionConfig.directory_targets.recommended_tags}
  \cup (IF Called THEN {assessment.metrics.missingRecommendedTags,
                        assessment.metrics.presentRecommendedTags}
        ELSE {})

\* C8: the list-formatting helper returns "" for no item, the item for one,
\* "A and B" for two and "A, B, ..., and Z" for three or more; the copy used
\* by the engine and the copy used by the renderers return the same string
\* for every list.
C8_FormatList ==
  \A items \in FormattedLists :
    /\ formatList(items) = ExpectedListText(items)
    /\ formatListRenderer(items) = formatList(items)

\* a list of three items or more has been formatted into an opportunity
C8_Witness ==
  /\ Called
  /\ Len(assessment.storytellingFocus) >= 3
  /\ "Collect narratives covering community, land, and energy to stay aligned with the SolarRoots storytelling focus."
       \in Range(assessment.opportunities)

----------------------------------------------------------------------------
(* The engine called again and again, other calls in between *)

\* configurations in which every target is set, so that each metric counts
RepeatConfigs ==
  {c \in VisionConfigs :
     /\ c.directory_targets.minimum_sites = MaxMinimumSites
     /\ c.directory_targets.storytelling_focus = SubSeq(FocusAreas, 1, MaxFocus)}

InitRepeat ==
  /\ loadState = "loaded"
  /\ visionConfig \in RepeatConfigs
  /\ entries = <<>>
  /\ totalTags = 0
  /\ tagOccurrences = NewMap
  /\ assessment = NoCall
  /\ remembered = NoCall
  /\ document = [wellFormed |-> TRUE, value |-> visionConfig]
  /\ storedSites = <<>>
  /\ response = NoResponse
  /\ heap = ParsedHeap
  /\ submission = NoSubmission
  /\ signups = <<>>

\* The first call is remembered with its result.  Later calls repeat its
\* argument or pass another, short list; `between` tells that another list
\* was assessed since the first call.
RepeatCall(sites) ==
  /\ IF remembered = NoCall THEN TRUE
     ELSE sites = remembered.sites \/ Len(sites) <= MaxInterleavedSites
  /\ AssessCall(sites)
  /\ remembered' =
       IF remembered = NoCall
       THEN [called |-> TRUE, sites |-> sites, result |-> assessment', between |-> FALSE]
       ELSE [remembered EXCEPT !.between = @ \/ sites # remembered.sites]
  /\ UNCHANGED <<document, storedSites, response, interestVars>>

NextRepeat == \E sites \in SiteLists : RepeatCall(sites)

SpecRepeat == InitRepeat /\ [][NextRepeat]_vars

\* C10: assessDirectoryAgainstVision is deterministic: a call with the same
\* entries and the same targets as an earlier call returns the same
\* assessment, whatever calls happened in between.
C10_SameInputSameAssessment ==
  (remembered # NoCall /\ entries = remembered.sites)
    => assessment = remembered.result

\* the first list, which carries tags, is assessed again after another list
C10_Witness ==
  /\ remembered # NoCall
  /\ remembered.between
  /\ entries = remembered.sites
  /\ totalTags > 0
  /\ assessment.metrics.totalTags = totalTags

----------------------------------------------------------------------------
(* index.ts: determineNextSteps *)

Max(a, b) == IF a >= b THEN a ELSE b

\* !value for a string | null column
Falsy(value) == value = Null \/ value = ""

NextStep(id, title, description) ==
  [id |-> id, title |-> title, description |-> description]

\* the closure addStep: `seen` holds exactly the ids of `steps`
addStep(steps, step) ==
  IF step.id \in {steps[i].id : i \in 1..Len(steps)} THEN steps ELSE Append(steps, step)

\* the element of a one-element set
TheOne(S) == CHOOSE x \in S : TRUE

\* addStep applied to each step of `calls` in turn
RECURSIVE addSteps(_, _)
addSteps(steps, calls) ==
  IF calls = <<>> THEN steps
  ELSE TheOne({addSteps(s, rest) : s \in {addStep(steps, Head(calls))},
                                   rest \in {Tail(calls)}})

\* sites.filter(predicate).length
CountMissing(sites, field) ==
  Cardinality({i \in 1..Len(sites) : Falsy(sites[i][field])})

\* an addStep call that is made only under a condition
CallIf(condition, step) == IF condition THEN <<step>> ELSE <<>>

\* GrowCalls that also asks for entries when the minimum is just reached
GrowCallsAtMinimum(m) ==
  LET remaining == Max(m.minimumSites - m.siteCount, 0)
      noun == IF remaining = 1 THEN "entry" ELSE "entries"
  IN  CallIf(m.siteCount <= m.minimumSites,
        NextStep("grow-directory-footprint", "Grow the directory footprint",
          "Publish " \o ToString(remaining) \o " more directory " \o noun
            \o " to reach the SolarRoots minimum of " \o ToString(m.minimumSites) \o "."))

\* if (!assessment.metrics.meetsMinimumSites) { ... if (remaining > 0) addStep }
GrowCalls(m) ==
  LET remaining == Max(m.minimumSites - m.siteCount, 0)
      noun == IF remaining = 1 THEN "entry" ELSE "entries"
  IN  CallIf(~m.meetsMinimumSites /\ remaining > 0,
        NextStep("grow-directory-footprint", "Grow the directory footprint",
          "Publish " \o ToString(remaining) \o " more directory " \o noun
            \o " to reach the SolarRoots minimum of " \o ToString(m.minimumSites) \o "."))

SeedCalls ==
  << NextStep("seed-directory", "Seed your directory data",
       "Add your first entries by applying a new D1 migration or sending a POST request to the /api/sites endpoint.") >>

DescriptionCalls(sites) ==
  LET sitesMissingDescriptions == CountMissing(sites, "description")
  IN  CallIf(sitesMissingDescriptions # 0,
        NextStep("enrich-descriptions", "Enrich site descriptions",
          "Provide meaningful descriptions for the "
            \o ToString(sitesMissingDescriptions) \o " entr"
            \o (IF sitesMissingDescriptions = 1 THEN "y" ELSE "ies")
            \o " that currently lack context."))

WebsiteCalls(sites) ==
  LET sitesMissingWebsites == CountMissing(sites, "website")
  IN  CallIf(sitesMissingWebsites # 0,
        NextStep("verify-links", "Add website links",
          "Share verified website URLs for "
            \o ToString(sitesMissingWebsites) \o " cooperativ"
            \o (IF sitesMissingWebsites = 1 THEN "e" ELSE "es")
            \o " so visitors can connect directly."))

\* the branch on tagSet.size
TagCalls(m, sites) ==
  LET tagSet == UNION {Range(sites[i].tags) : i \in 1..Len(sites)}
  IN  IF Cardinality(tagSet) = 0
      THEN << NextStep("categorise-sites", "Add tags to categorise sites",
                "Create or assign tags that highlight technologies, ownership models, or regions to improve discovery.") >>
      ELSE CallIf(Len(m.missingRecommendedTags) # 0,
             NextStep("activate-vision-tags", "Activate recommended SolarRoots tags",
               "Introduce tags for " \o formatListRenderer(m.missingRecommendedTags)
                 \o " to reflect the movement priorities captured in the vision document."))
           \o (IF ~m.meetsMinimumTagDensity
               THEN << NextStep("deepen-tag-context", "Deepen tag context",
                         "Document more dimensions for each cooperative so the average tags per site reaches "
                           \o FixedText(toFixed1(m.minimumTagDensity)) \o ".") >>
               ELSE CallIf(Cardinality(tagSet) < Max(3, Len(sites)),
                      NextStep("expand-taxonomy", "Expand your tagging taxonomy",
                        "Broaden the tag set with additional topics so the directory can filter and group projects more effectively.")))

evergreenSteps ==
  << NextStep("extend-schema", "Extend the D1 schema",
       "Model events, contacts, or regional data to support richer cooperative profiles."),
     NextStep("add-authentication", "Introduce authenticated submissions",
       "Secure write operations so trusted organizers can submit updates directly from the site."),
     NextStep("enhance-frontend", "Pair with a richer frontend",
       "Connect this worker to a Cloudflare Pages UI or SPA for multi-page navigation and advanced filtering.") >>

\* the addStep calls of determineNextSteps, in the order the code makes them
StepCalls(m, sites) ==
  GrowCalls(m)
  \o (IF Len(sites) = 0 THEN SeedCalls
      ELSE DescriptionCalls(sites) \o WebsiteCalls(sites) \o TagCalls(m, sites))
  \o evergreenSteps

determineNextSteps(sites) ==
  TheOne({addSteps(<<>>, calls) :
            calls \in {StepCalls(m, sites) :
                         m \in {assessDirectoryAgainstVision(sites).metrics}}})

----------------------------------------------------------------------------
(* The worker: module evaluation, the sites table, the fetch handler *)

\* the directory targets of the bundled documents
BundledTargets ==
  {t \in DirectoryTargets :
     /\ t.minimum_sites \in {0, MaxMinimumSites}
     /\ t.minimum_tag_density = Rat(MaxDensityHalves, 2)
     /\ t.recommended_tags = <<"solar", "cooperative">>
     /\ t.storytelling_focus = SubSeq(FocusAreas, 1, MaxFocus)}

\* What parse(VISION_YAML) meets: a text that is not YAML, or a mapping.
\* Of the required fields, the mapping may lack `mission`; mappings that
\* lack a field of directory_targets are not enumerated.
Documents ==
  {[wellFormed |-> FALSE, value |-> NoConfig]}
  \cup {[wellFormed |-> TRUE,
         value |-> [mission |-> mission, directory_targets |-> t]] :
          mission \in {Mission, Undefined}, t \in BundledTargets}

Init ==
  /\ loadState = "importing"
  /\ visionConfig = NoConfig
  /\ document \in Documents
  /\ storedSites = <<>>
  /\ response = NoResponse
  /\ heap = EmptyHeap
  /\ submission = NoSubmission
  /\ signups = <<>>
  /\ entries = <<>>
  /\ totalTags = 0
  /\ tagOccurrences = NewMap
  /\ assessment = NoCall
  /\ remembered = NoCall

\* export const visionConfig = Object.freeze(parse(VISION_YAML) as VisionConfig):
\* parse throws on a text that is not YAML and the module fails to evaluate;
\* the cast checks nothing
LoadModule ==
  /\ loadState = "importing"
  /\ IF document.wellFormed
     THEN loadState' = "loaded" /\ visionConfig' = document.value /\ heap' = ParsedHeap
     ELSE loadState' = "failed" /\ visionConfig' = NoConfig /\ heap' = heap
  /\ UNCHANGED <<entries, totalTags, tagOccurrences, assessment, remembered,
                 document, storedSites, response, interestVars>>

\* a migration inserts a site; SITE_QUERY lists the newest site first
InsertSite(site) ==
  /\ Len(storedSites) < MaxStoredSites
  /\ storedSites' = <<site>> \o storedSites
  /\ UNCHANGED <<loadState, visionConfig, engineVars, remembered, document, response,
                 interestVars>>

Response(route, status, kind, body) ==
  [served |-> TRUE, route |-> route, status |-> status, kind |-> kind,
   thrown |-> FALSE, body |-> body]

\* fetchSites rejected outside any try block: the exception leaves the
\* handler and the runtime answers in its place
Uncaught(route) ==
  [served |-> TRUE, route |-> route, status |-> 500, kind |-> "runtime-error",
   thrown |-> TRUE, body |-> NoCall]

\* if (url.pathname === '/api/sites')
FetchApiSites(dbOk) ==
  /\ loadState = "loaded"
  /\ response' = IF dbOk THEN Response("/api/sites", 200, "json", [sites |-> storedSites])
                 ELSE Uncaught("/api/sites")
  /\ UNCHANGED <<loadState, visionConfig, engineVars, remembered, document, storedSites,
                 interestVars>>

\* if (url.pathname === '/api/next-steps')
FetchApiNextSteps(dbOk) ==
  /\ loadState = "loaded"
  /\ IF dbOk
     THEN /\ AssessCall(storedSites)
          /\ response' = Response("/api/next-steps", 200, "json",
                                  [nextSteps |-> determineNextSteps(storedSites)])
     ELSE /\ response' = Uncaught("/api/next-steps")
          /\ UNCHANGED <<loadState, visionConfig, engineVars>>
  /\ UNCHANGED <<remembered, document, storedSites, interestVars>>

\* if (url.pathname === '/api/vision')
FetchApiVision(dbOk) ==
  /\ loadState = "loaded"
  /\ IF dbOk
     THEN /\ AssessCall(storedSites)
          /\ response' = Response("/api/vision", 200, "json",
                                  [vision |-> visionConfig, assessment |-> assessment'])
     ELSE /\ response' = Uncaught("/api/vision")
          /\ UNCHANGED <<loadState, visionConfig, engineVars>>
  /\ UNCHANGED <<remembered, document, storedSites, interestVars>>

\* any other path than the routes of the handler
FetchNotFound ==
  /\ loadState = "loaded"
  /\ response' = Response("/other", 404, "text", [text |-> "Not Found"])
  /\ UNCHANGED <<loadState, visionConfig, engineVars, remembered, document, storedSites,
                 interestVars>>

\* '/' and '/index.html': fetchSites and renderPage inside try/catch
FetchPage(path, dbOk) ==
  /\ loadState = "loaded"
  /\ IF dbOk
     THEN /\ AssessCall(storedSites)
          /\ response' = Response(path, 200, "html",
                                  [assessment |-> assessment',
                                   visionScore |-> renderVisionScore(assessment'),
                                   nextSteps |-> determineNextSteps(storedSites)])
     ELSE /\ response' = Response(path, 500, "text", [text |-> "Internal Server Error"])
          /\ UNCHANGED <<loadState, visionConfig, engineVars>>
  /\ UNCHANGED <<remembered, document, storedSites, interestVars>>

Next ==
  \/ LoadModule
  \/ \E site \in SiteRecords : InsertSite(site)
  \/ \E dbOk \in BOOLEAN : FetchApiSites(dbOk)
  \/ \E dbOk \in BOOLEAN : FetchApiNextSteps(dbOk)
  \/ \E dbOk \in BOOLEAN : FetchApiVision(dbOk)
  \/ FetchNotFound
  \/ \E path \in {"/", "/index.html"}, dbOk \in BOOLEAN : FetchPage(path, dbOk)

Spec == Init /\ [][Next]_vars

\* routes whose response is built from an assessment
AssessmentRoutes == {"/", "/index.html", "/api/vision", "/api/next-steps"}

\* every required field of the configuration is there
CompleteConfig(c) ==
  /\ c # NoConfig
  /\ c.mission # Undefined
  /\ c.directory_targets \in DirectoryTargets

\* C9: loading the vision configuration either produces a complete,
\* well-typed configuration or fails, when the document is malformed or lacks
\* a required field (mission, minimum_sites, minimum_tag_density,
\* recommended_tags, storytelling_focus); after a failed or incomplete load
\* no assessment-dependent route is served.
C9_LoadCompleteOrFails ==
  /\ loadState = "loaded" => CompleteConfig(visionConfig)
  /\ (response # NoResponse /\ response.route \in AssessmentRoutes /\ ~response.thrown
        /\ response.status = 200)
       => (loadState = "loaded" /\ CompleteConfig(visionConfig))

----------------------------------------------------------------------------
(* Storage failures *)

\* routes of the handler that read the sites table
StorageRoutes == {"/", "/index.html", "/api/sites", "/api/next-steps", "/api/vision"}

\* C12: on every route that reads sites from storage (/, /index.html,
\* /api/sites, /api/next-steps, /api/vision) a failure of the storage fetch
\* is caught by the handler and answered with a generic 500 response that
\* carries no internal detail.
C12_StorageFailureCaught ==
  (response # NoResponse /\ response.route \in StorageRoutes /\ response.status # 200)
    => /\ ~response.thrown
       /\ response.status = 500
       /\ response.body = [text |-> "Internal Server Error"]

----------------------------------------------------------------------------
(* Full score *)

AllTargetsMet(m) ==
  /\ m.meetsMinimumSites
  /\ m.meetsMinimumTagDensity
  /\ m.missingRecommendedTags = <<>>

FullScoreLine ==
  "<p class=\"vision-score\"><strong>100.0% alignment</strong> with the SolarRoots vision targets.</p>"

\* C13 as stated: progressScore is 100 exactly when all three targets are
\* met; a directory that misses a target is never reported as 100.0% aligned.
C13_FullScoreIffAllTargetsMet ==
  Called =>
    /\ (assessment.progressScore = Int2Rat(100)) <=> AllTargetsMet(assessment.metrics)
    /\ (renderVisionScore(assessment) = FullScoreLine) <=> AllTargetsMet(assessment.metrics)

\* C13 amended: progressScore is 100 (and the page reads "100.0% alignment")
\* whenever all three targets are met; when a target is missed the mean of
\* the three factors is below 1, and progressScore is 100 exactly when
\* 100 times that mean is at least 99.95, the values toFixed(1) rounds up.
C13_FullScoreIffMeanRoundsToHundred ==
  Called =>
    LET m == assessment.metrics
        s == SpecFactorSum(m)
        full == assessment.progressScore = Int2Rat(100)
    IN  /\ AllTargetsMet(m) => full
        /\ ~AllTargetsMet(m) => s.num < 3 * s.den
        \* 100 * s / 3 >= 99.95
        /\ full <=> 2000 * s.num >= 5997 * s.den
        /\ full <=> renderVisionScore(assessment) = FullScoreLine

\* the density goal is missed by a hair and the score still reads 100.0
C13_Witness ==
  /\ Called
  /\ ~assessment.metrics.meetsMinimumTagDensity
  /\ assessment.progressScore = Int2Rat(100)
  /\ renderVisionScore(assessment) = FullScoreLine

----------------------------------------------------------------------------
(* The shared targets under interleaved requests *)

\* the arrays the loaded configuration refers to
ConfigArrays == {heap.recommended_tags, heap.storytelling_focus}

\* a step of a request that ran the assessment or rendered a response
RequestStep == assessment' # assessment \/ response' # response

\* the two list fields of the latest result are arrays of their own that
\* hold the elements of the configured lists
ResultListsAreCopies ==
  Called =>
    /\ heap.recommendedTags \notin ConfigArrays \cup {NoArray}
    /\ heap.storytellingFocus \notin ConfigArrays \cup {NoArray}
    /\ heap.recommendedTags # heap.storytellingFocus
    /\ assessment.metrics.recommendedTags = visionConfig.directory_targets.recommended_tags
    /\ assessment.storytellingFocus = visionConfig.directory_targets.storytelling_focus

\* C11: the shared vision targets are written once, at load, and never change
\* afterwards: whatever the interleaving of page, /api/vision and
\* /api/next-steps requests, no assessment or rendering step modifies the
\* targets or the fetched entries, and the recommendedTags and
\* storytellingFocus lists of a result are copies, not the shared lists.
C11_TargetsWrittenOnce ==
  /\ [][loadState # "importing"
          => /\ loadState' = loadState
             /\ visionConfig' = visionConfig
             /\ heap'.recommended_tags = heap.recommended_tags
             /\ heap'.storytelling_focus = heap.storytelling_focus]_vars
  /\ [][RequestStep
          => /\ visionConfig' = visionConfig
             /\ storedSites' = storedSites
             /\ (assessment' # assessment => entries' = storedSites)]_vars
  /\ []ResultListsAreCopies

\* /api/vision answered for a stored site after another request was answered
\* from the same configuration
C11_Witness ==
  /\ response # NoResponse
  /\ response.route = "/api/vision"
  /\ response.status = 200
  /\ storedSites # <<>>
  /\ entries = storedSites
  /\ response.body.vision = visionConfig
  /\ heap.recommendedTags \notin ConfigArrays \cup {NoArray}

----------------------------------------------------------------------------
(* Next steps for a directory that already lists sites *)

\* what SITE_QUERY may return; the steps read the tags of a site as a set, so
\* one order of each tag set is listed
ListedSites ==
  SeqsUpTo({r \in SiteRecords : r.tags \in {<<>>, <<"solar">>, <<"solar", "cooperative">>}},
           MaxListedSites)

\* configurations with the recommended tags and focus areas of the bundled
\* document, any minimum of sites, and no density goal or the bundled one
StepConfigs ==
  {c \in VisionConfigs :
     /\ c.directory_targets.recommended_tags = <<"solar", "cooperative">>
     /\ c.directory_targets.storytelling_focus = SubSeq(FocusAreas, 1, MaxFocus)
     /\ c.directory_targets.minimum_tag_density \in {Int2Rat(0), Rat(MaxDensityHalves, 2)}}

\* a worker that evaluated its modules, in front of a populated table
InitSteps ==
  /\ loadState = "loaded"
  /\ visionConfig \in StepConfigs
  /\ document = [wellFormed |-> TRUE, value |-> visionConfig]
  /\ storedSites \in ListedSites
  /\ response = NoResponse
  /\ heap = ParsedHeap
  /\ submission = NoSubmission
  /\ signups = <<>>
  /\ entries = <<>>
  /\ totalTags = 0
  /\ tagOccurrences = NewMap
  /\ assessment = NoCall
  /\ remembered = NoCall

\* the two callers of determineNextSteps
NextSteps ==
  \/ \E dbOk \in BOOLEAN : FetchApiNextSteps(dbOk)
  \/ \E path \in {"/", "/index.html"}, dbOk \in BOOLEAN : FetchPage(path, dbOk)

SpecSteps == InitSteps /\ [][NextSteps]_vars

NextStepRoutes == {"/api/next-steps", "/", "/index.html"}

StepIds(steps) == [i \in 1..Len(steps) |-> steps[i].id]

\* C14: determineNextSteps never returns two steps with the same id; for
\* every sites list the returned list ends with the three evergreen steps
\* extend-schema, add-authentication, enhance-frontend, in that order;
\* grow-directory-footprint is present iff siteCount < minimumSites and
\* seed-directory is present iff the sites list is empty.
C14_NextStepsShape ==
  (response # NoResponse /\ response.route \in NextStepRoutes /\ response.status = 200)
    => LET ids == StepIds(response.body.nextSteps)
           n == Len(ids)
       IN  /\ response.body.nextSteps = determineNextSteps(entries)
           /\ \A i, j \in 1..n : ids[i] = ids[j] => i = j
           /\ n >= 3
           /\ SubSeq(ids, n - 2, n) = <<"extend-schema", "add-authentication", "enhance-frontend">>
           /\ ("grow-directory-footprint" \in Range(ids))
                <=> (Len(entries) < visionConfig.directory_targets.minimum_sites)
           /\ ("seed-directory" \in Range(ids)) <=> (entries = <<>>)

\* sites are listed, fewer than the minimum: the grow step leads, the
\* evergreen steps close, and steps about the sites stand in between
C14_Witness ==
  /\ response # NoResponse
  /\ response.route = "/api/next-steps"
  /\ response.status = 200
  /\ Len(entries) >= 1
  /\ visionConfig.directory_targets.minimum_sites > Len(entries)
  /\ Len(response.body.nextSteps) >= 6
  /\ response.body.nextSteps[1].id = "grow-directory-footprint"

----------------------------------------------------------------------------
(* index.ts: /api/interest.  Strings are sequences of characters. *)

\* the length limits of validateInterestPayload
EmailMaxLength == 256
NameMaxLength == 120
OrganizationMaxLength == 160
MessageMaxLength == 1500

\* a letter, the two marks the email pattern looks for, and whitespace
Chars == {"a", "@", ".", " "}

\* a JSON value that is not a string, and null
NotAString == << "<undefined>" >>
NullField == << "<null>" >>

\* typeof value === 'string'
IsString(value) == value # NotAString

\* String.prototype.trim
trim(s) ==
  IF \A i \in 1..Len(s) : s[i] = " " THEN <<>>
  ELSE SubSeq(s,
         CHOOSE i \in 1..Len(s) : s[i] # " " /\ \A j \in 1..(i - 1) : s[j] = " ",
         CHOOSE i \in 1..Len(s) : s[i] # " " /\ \A j \in (i + 1)..Len(s) : s[j] = " ")

\* value.slice(0, maxLength)
slice(s, maxLength) == SubSeq(s, 1, IF Len(s) < maxLength THEN Len(s) ELSE maxLength)

\* [^\s@]+ matches all of s
NoSpaceNoAt(s) == s # <<>> /\ \A i \in 1..Len(s) : s[i] \notin {" ", "@"}

\* /^[^\s@]+@[^\s@]+\.[^\s@]+$/.test(s)
emailPatternTest(s) ==
  \E i \in 1..Len(s) :
    /\ s[i] = "@"
    /\ NoSpaceNoAt(SubSeq(s, 1, i - 1))
    /\ \E j \in (i + 1)..Len(s) :
         /\ s[j] = "."
         /\ NoSpaceNoAt(SubSeq(s, i + 1, j - 1))
         /\ NoSpaceNoAt(SubSeq(s, j + 1, Len(s)))

\* sanitizeOptionalField that keeps the whole trimmed value
sanitizeOptionalFieldUncut(value, maxLength) ==
  IF ~IsString(value) THEN NullField
  ELSE IF trim(value) = <<>> THEN NullField
  ELSE trim(value)

sanitizeOptionalField(value, maxLength) ==
  IF ~IsString(value) THEN NullField
  ELSE IF trim(value) = <<>> THEN NullField
  ELSE slice(trim(value), maxLength)

NoPayload ==
  [email |-> NullField, name |-> NullField, organization |-> NullField, message |-> NullField]

Invalid(error) == [valid |-> FALSE, error |-> error, payload |-> NoPayload]

\* data.kind is "object" for a JSON object and for an array, whose email,
\* name, organization and message properties are undefined
validateInterestPayload(data) ==
  IF data.kind \notin {"object", "array"} THEN Invalid("Invalid request body.")
  ELSE LET emailRaw == IF IsString(data.email) THEN trim(data.email) ELSE <<>>
       IN  IF emailRaw = <<>> THEN Invalid("Email is required.")
           ELSE IF ~emailPatternTest(emailRaw) THEN Invalid("Enter a valid email address.")
           ELSE [valid |-> TRUE, error |-> "",
                 payload |->
                   [email |-> slice(emailRaw, EmailMaxLength),
                    name |-> sanitizeOptionalField(data.name, NameMaxLength),
                    organization |-> sanitizeOptionalField(data.organization, OrganizationMaxLength),
                    message |-> sanitizeOptionalField(data.message, MessageMaxLength)]]

\* request bodies

Pad(n) == [i \in 1..n |-> "a"]

ShortEmail == <<"a", "@", "a", ".", "a">>

EmailInputs ==
  SeqsUpTo(Chars, MaxEmailChars)
    \cup {NotAString, <<" ">> \o ShortEmail \o <<" ">>, Pad(EmailMaxLength) \o ShortEmail}

OptionalInputs(maxLength) ==
  {NotAString, <<" ", " ">>, <<" ", "a", " ">>, Pad(maxLength), <<" ">> \o Pad(maxLength + 1)}

JsonValue(kind, email, name, organization, message) ==
  [kind |-> kind, email |-> email, name |-> name, organization |-> organization,
   message |-> message]

NoProperties(kind) == JsonValue(kind, NotAString, NotAString, NotAString, NotAString)

\* what request.json() meets: a text that is not JSON, a value that is no
\* object, an array, an object with any email, an object with a good email
\* and any optional fields
Bodies ==
  {[parses |-> FALSE, data |-> NoProperties("none")]}
  \cup {[parses |-> TRUE, data |-> NoProperties(kind)] : kind \in {"null", "number", "string", "array"}}
  \cup {[parses |-> TRUE, data |-> JsonValue("object", email, NotAString, NotAString, NotAString)] :
          email \in EmailInputs}
  \cup {[parses |-> TRUE, data |-> JsonValue("object", email, name, organization, message)] :
          email \in {ShortEmail, Pad(EmailMaxLength) \o ShortEmail},
          name \in OptionalInputs(NameMaxLength),
          organization \in OptionalInputs(OrganizationMaxLength),
          message \in OptionalInputs(MessageMaxLength)}

Methods == {"OPTIONS", "POST", "GET"}

\* a request for /api/interest reaches the handler
ReceiveInterest(method, body) ==
  /\ loadState = "loaded"
  /\ submission = NoSubmission
  /\ submission' = [pc |-> "received", method |-> method, body |-> body,
                    payload |-> NoPayload, insertAttempted |-> FALSE, insertOk |-> FALSE]
  /\ UNCHANGED <<loadState, visionConfig, engineVars, remembered, document, storedSites,
                 response, signups>>

\* if (request.method === 'OPTIONS')
AnswerOptions ==
  /\ submission.pc = "received"
  /\ submission.method = "OPTIONS"
  /\ submission' = [submission EXCEPT !.pc = "responded"]
  /\ response' = Response("/api/interest", 204, "empty", [message |-> ""])
  /\ UNCHANGED <<loadState, visionConfig, engineVars, remembered, document, storedSites,
                 signups>>

\* neither OPTIONS nor POST
AnswerMethodNotAllowed ==
  /\ submission.pc = "received"
  /\ submission.method \notin {"OPTIONS", "POST"}
  /\ submission' = [submission EXCEPT !.pc = "responded"]
  /\ response' = Response("/api/interest", 405, "json", [message |-> "Method Not Allowed"])
  /\ UNCHANGED <<loadState, visionConfig, engineVars, remembered, document, storedSites,
                 signups>>

\* handleInterestSubmission, the first try block
ParseAndValidate ==
  /\ submission.pc = "received"
  /\ submission.method = "POST"
  /\ IF ~submission.body.parses
     THEN /\ submission' = [submission EXCEPT !.pc = "responded"]
          /\ response' = Response("/api/interest", 400, "json",
                                  [message |-> "Unable to process request body."])
     ELSE \E validation \in {validateInterestPayload(submission.body.data)} :
            IF ~validation.valid
            THEN /\ submission' = [submission EXCEPT !.pc = "responded"]
                 /\ response' = Response("/api/interest", 400, "json",
                                         [message |-> validation.error])
            ELSE /\ submission' = [submission EXCEPT !.pc = "inserting",
                                                     !.payload = validation.payload]
                 /\ response' = response
  /\ UNCHANGED <<loadState, visionConfig, engineVars, remembered, document, storedSites,
                 signups>>

\* handleInterestSubmission, the second try block and the final return
InsertInterest(dbOk) ==
  /\ submission.pc = "inserting"
  /\ submission' = [submission EXCEPT !.pc = "responded", !.insertAttempted = TRUE,
                                      !.insertOk = dbOk]
  /\ IF dbOk
     THEN /\ signups' = Append(signups, submission.payload)
          /\ response' = Response("/api/interest", 201, "json",
                                  [message |-> "Interest recorded."])
     ELSE /\ signups' = signups
          /\ response' = Response("/api/interest", 500, "json",
                                  [message |-> "Failed to record interest right now."])
  /\ UNCHANGED <<loadState, visionConfig, engineVars, remembered, document, storedSites>>

NextInterest ==
  \/ LoadModule
  \/ \E body \in Bodies : ReceiveInterest("POST", body)
  \/ \E method \in Methods \ {"POST"} : ReceiveInterest(method, TheOne({b \in Bodies : ~b.parses}))
  \/ AnswerOptions
  \/ AnswerMethodNotAllowed
  \/ ParseAndValidate
  \/ \E dbOk \in BOOLEAN : InsertInterest(dbOk)

SpecInterest == Init /\ [][NextInterest]_vars

\* claims about the submission

\* an address without outer whitespace: no whitespace inside, exactly one
\* "@" with something before it, and after it a "." that has something on
\* both sides
WellFormedEmail(e) ==
  LET ats == {i \in 1..Len(e) : e[i] = "@"}
  IN  /\ \A i \in 1..Len(e) : e[i] # " "
      /\ Cardinality(ats) = 1
      /\ \A at \in ats : at > 1 /\ \E j \in (at + 2)..(Len(e) - 1) : e[j] = "."

\* the body is unparsable, is no object, or has a missing or malformed email
Rejectable(body) ==
  \/ ~body.parses
  \/ body.data.kind \in {"null", "number", "string"}
  \/ ~IsString(body.data.email)
  \/ ~WellFormedEmail(trim(body.data.email))

StoredLength(value) == IF value = NullField THEN 0 ELSE Len(value)

\* C15: in handleInterestSubmission the storage insert is attempted only
\* after the body parsed and validateInterestPayload accepted it: an
\* unparsable body, a non-object body, a missing or malformed email each yield
\* status 400 with no insert; status 201 is returned only after the insert
\* succeeded, and a failed insert yields status 500; the stored email, name,
\* organization and message are at most 256, 120, 160 and 1500 characters.
C15_InsertOnlyAfterValidation ==
  /\ (submission # NoSubmission /\ submission.method = "POST")
       => /\ (submission.pc = "inserting" \/ submission.insertAttempted)
               => ~Rejectable(submission.body)
          /\ submission.pc = "responded"
               => /\ response.route = "/api/interest"
                  /\ Rejectable(submission.body) => response.status = 400
                  /\ response.status = 400 => (~submission.insertAttempted /\ signups = <<>>)
                  /\ response.status = 201
                       <=> (submission.insertAttempted /\ submission.insertOk)
                  /\ response.status = 201 => signups = <<submission.payload>>
                  /\ (submission.insertAttempted /\ ~submission.insertOk)
                       => (response.status = 500 /\ signups = <<>>)
  /\ \A i \in 1..Len(signups) :
       /\ StoredLength(signups[i].email) <= 256
       /\ signups[i].email # NullField
       /\ StoredLength(signups[i].name) <= 120
       /\ StoredLength(signups[i].organization) <= 160
       /\ StoredLength(signups[i].message) <= 1500

\* a submission whose name and message were longer than the limits is stored,
\* cut to the limits, and answered with 201
C15_Witness ==
  /\ submission # NoSubmission
  /\ submission.pc = "responded"
  /\ response.status = 201
  /\ Len(signups) = 1
  /\ Len(trim(submission.body.data.name)) > 120
  /\ Len(signups[1].name) = 120
  /\ Len(trim(submission.body.data.message)) > 1500
  /\ Len(signups[1].message) = 1500

====
